---- MODULE Spec2Model ----
(***************************************************************************)
(* Western-to-Carnatic violin notation converter.                          *)
(*                                                                         *)
(* Three parts of the repository are modelled:                             *)
(*   - CarnaticConverter (lib/carnatic-converter): noteToMidi,             *)
(*     findBestPosition, convertNote, convertScore      -- SpecConv        *)
(*   - the zustand store, the usePlayback hook, InputPanel and             *)
(*     NotationPlayer                                   -- SpecStore       *)
(*   - the ScrollingNotation component                  -- Spec,           *)
(*                                                         SpecPlayThrough *)
(*                                                                         *)
(* Text is modelled as a tuple of one-character strings, so that regular   *)
(* expression matching, toUpperCase, replace and parseInt are computed on  *)
(* the characters.  Pixel quantities of the two canvases are kept in       *)
(* thirtieths of a pixel (x30), which makes the per-frame step tempo/30    *)
(* an integer.                                                             *)
(***************************************************************************)
EXTENDS Integers, Sequences, FiniteSets, TLC

VARIABLES
    \* ---- CarnaticConverter applied to an input (SpecConv)
    convCall,         \* which static method was called last
    convArg,          \* its argument: a MIDI number, or a list of WesternNote
    convResult,       \* what it returned, or that it threw
    \* ---- zustand store (lib/store.ts)
    westernNotes, carnaticPositions, playbackState, currentIndex, tempo, loop,
    \* ---- usePlayback / NotationPlayer / InputPanel
    timer,            \* the delays (ms) of the advance timeouts pending
    scrollOffset,     \* NotationPlayer scrollOffset.current, x30
    op,               \* the last store-side handler that ran
    pre,              \* the store fields that handler started from
    \* ---- ScrollingNotation
    input, notes, playing, snTempo, currentIdx, soundEnabled,
    scrollY,          \* scrollY.current, x30
    lastPlayedIdx,
    pendingPlay,      \* Play presses still awaiting synth.resume()
    audioLog,         \* playWesternNote calls since the last load/reset
    rewoundBy,        \* what last put the scroll at 0: init, load, upload, reset
    \* ---- the frames of ScrollingNotation against the wall clock
    sinceStart,       \* time spent playing since the scroll was last at 0,
                      \* in 1/120 s
    earlierRun        \* tempo, time and scroll of the run the last Reset ended

convVars  == <<convCall, convArg, convResult>>
storeVars == <<westernNotes, carnaticPositions, playbackState, currentIndex,
               tempo, loop, timer, scrollOffset, op, pre>>
snVars    == <<input, notes, playing, snTempo, currentIdx, soundEnabled,
               scrollY, lastPlayedIdx, pendingPlay, audioLog, rewoundBy>>
rateVars  == <<sinceStart, earlierRun>>
vars      == <<convVars, storeVars, snVars, rateVars>>

-----------------------------------------------------------------------------
(* Characters and small text helpers                                        *)

Digits == {"0", "1", "2", "3", "4", "5", "6", "7", "8", "9"}

DigitValue(c) ==
    CASE c = "0" -> 0 [] c = "1" -> 1 [] c = "2" -> 2 [] c = "3" -> 3
      [] c = "4" -> 4 [] c = "5" -> 5 [] c = "6" -> 6 [] c = "7" -> 7
      [] c = "8" -> 8 [] c = "9" -> 9

IsDigit(c) == c \in Digits

NotDigit(c) == c \notin Digits

\* parseInt of a non-empty run of decimal digits
RECURSIVE ParseInt(_)
ParseInt(ds) ==
    IF ds = <<>> THEN 0
    ELSE 10 * ParseInt(SubSeq(ds, 1, Len(ds) - 1)) + DigitValue(ds[Len(ds)])

AllDigits(s) == \A i \in 1..Len(s) : IsDigit(s[i])

\* pitch.replace(/[0-9]/g, '')
StripDigits(s) == SelectSeq(s, NotDigit)

-----------------------------------------------------------------------------
(* CarnaticConverter, the variant imported by InputPanel                    *)

STRING_TUNINGS == [G |-> 55, D |-> 50, A |-> 45, E |-> 40]

NOTE_TO_MIDI ==
       (<<"C">> :> 0)  @@ (<<"C", "#">> :> 1)  @@ (<<"D", "b">> :> 1)
    @@ (<<"D">> :> 2)  @@ (<<"D", "#">> :> 3)  @@ (<<"E", "b">> :> 3)
    @@ (<<"E">> :> 4)
    @@ (<<"F">> :> 5)  @@ (<<"F", "#">> :> 6)  @@ (<<"G", "b">> :> 6)
    @@ (<<"G">> :> 7)  @@ (<<"G", "#">> :> 8)  @@ (<<"A", "b">> :> 8)
    @@ (<<"A">> :> 9)  @@ (<<"A", "#">> :> 10) @@ (<<"B", "b">> :> 10)
    @@ (<<"B">> :> 11)

STRING_POSITIONS ==
    [G |-> <<"SA", "RE1", "RE2", "GA2", "GA3", "MA1", "MA2">>,
     D |-> <<"PA", "DA1", "DA2", "NI2", "NI3", "SA.">>,
     A |-> <<"Sa", "Re1", "Re2", "Ga2", "Ga3", "Ma1", "Ma2">>,
     E |-> <<"Pa", "Da1", "Da2", "Ni2", "Ni3", "Sa.", "Re1.", "Re2.", "Ga2.",
             "Ga3.", "Ma1.", "Ma2.", "Pa.">>]

\* the iteration order of findBestPosition
strings == <<"G", "D", "A", "E">>

\* a CarnaticPosition | null: null is the record whose string is "null"
NullPosition == [string |-> "null", position |-> "", fingerPosition |-> 0 - 1]

IsNull(p) == p.string = "null"

\* a thrown Error, as the result of a call
Thrown == [threw |-> TRUE, value |-> <<>>]

Returned(v) == [threw |-> FALSE, value |-> v]

\* a conversion that forgets the + 1 of the octave
NoteToMidiOctaveOff(pitch, octave) ==
    LET noteName == StripDigits(pitch)
    IN  IF noteName \notin DOMAIN NOTE_TO_MIDI
        THEN Thrown
        ELSE Returned(octave * 12 + NOTE_TO_MIDI[noteName])

\* noteToMidi: the result of the call, a number or a throw
NoteToMidi(pitch, octave) ==
    LET noteName == StripDigits(pitch)
    IN  IF noteName \notin DOMAIN NOTE_TO_MIDI
        THEN Thrown
        ELSE Returned((octave + 1) * 12 + NOTE_TO_MIDI[noteName])

\* stretch = strings.indexOf(string) * 0.5 + semitonesFromOpen * 0.1, in tenths
Stretch(stringIndex, semitonesFromOpen) ==
    stringIndex * 5 + semitonesFromOpen

\* minStretch is <<>> for Infinity and <<tenths>> once a candidate is kept
Infinity == <<>>

\* a comparison that lets every candidate replace the one kept
StretchBelowAlways(stretch, minStretch) == TRUE

\* stretch < minStretch
StretchBelow(stretch, minStretch) ==
    minStretch = Infinity \/ stretch < minStretch[1]

\* range tests that start at the first finger
IsCandidateFingered(string, semitonesFromOpen) ==
    /\ semitonesFromOpen >= 1 /\ semitonesFromOpen <= 12
    /\ semitonesFromOpen < Len(STRING_POSITIONS[string])

\* the two range tests of the loop body
IsCandidate(string, semitonesFromOpen) ==
    /\ semitonesFromOpen >= 0 /\ semitonesFromOpen <= 12
    /\ semitonesFromOpen < Len(STRING_POSITIONS[string])

\* the for loop of findBestPosition from strings[i] on (i is 1-based here)
RECURSIVE FindBestFrom(_, _, _, _)
FindBestFrom(i, midiNote, bestMatch, minStretch) ==
    IF i > Len(strings) THEN bestMatch
    ELSE
      LET string == strings[i]
          semitonesFromOpen == midiNote - STRING_TUNINGS[string]
          stretch == Stretch(i - 1, semitonesFromOpen)
      IN  IF IsCandidate(string, semitonesFromOpen)
             /\ StretchBelow(stretch, minStretch)
          THEN FindBestFrom(i + 1, midiNote,
                   [string |-> string,
                    position |-> STRING_POSITIONS[string][semitonesFromOpen + 1],
                    fingerPosition |-> semitonesFromOpen],
                   <<stretch>>)
          ELSE FindBestFrom(i + 1, midiNote, bestMatch, minStretch)

FindBestPosition(midiNote) == FindBestFrom(1, midiNote, NullPosition, Infinity)

\* convertNote: a position, null, or the throw of noteToMidi
ConvertNote(westernNote) ==
    LET midiNote == NoteToMidi(westernNote.pitch, westernNote.octave)
    IN  IF midiNote.threw THEN Thrown
        ELSE Returned(FindBestPosition(midiNote.value))

\* notes.map(note => this.convertNote(note)): the callback runs on each
\* element in order and the first throw ends the whole call
RECURSIVE MapConvert(_, _)
MapConvert(rest, acc) ==
    IF rest = <<>> THEN Returned(acc)
    ELSE LET r == ConvertNote(Head(rest))
         IN  IF r.threw THEN Thrown
             ELSE MapConvert(Tail(rest), Append(acc, r.value))

\* a conversion that keeps the playable notes only
ConvertScorePlayable(ns) ==
    LET r == MapConvert(ns, <<>>)
    IN  IF r.threw THEN Thrown
        ELSE Returned(SelectSeq(r.value, LAMBDA p : ~IsNull(p)))

ConvertScore(ns) == MapConvert(ns, <<>>)

-----------------------------------------------------------------------------
(* CarnaticConverter, the variant of lib/carnatic-converter-correct          *)

Correct_STRING_TUNINGS == [E |-> 64, A |-> 57, D |-> 50, G |-> 43]

Correct_NOTE_TO_MIDI ==
       (<<"C">> :> 0)  @@ (<<"C", "#">> :> 1)  @@ (<<"D", "b">> :> 1)
    @@ (<<"D">> :> 2)  @@ (<<"D", "#">> :> 3)  @@ (<<"E", "b">> :> 3)
    @@ (<<"E">> :> 4)  @@ (<<"E", "#">> :> 5)  @@ (<<"F", "b">> :> 4)
    @@ (<<"F">> :> 5)  @@ (<<"F", "#">> :> 6)  @@ (<<"G", "b">> :> 6)
    @@ (<<"G">> :> 7)  @@ (<<"G", "#">> :> 8)  @@ (<<"A", "b">> :> 8)
    @@ (<<"A">> :> 9)  @@ (<<"A", "#">> :> 10) @@ (<<"B", "b">> :> 10)
    @@ (<<"B">> :> 11) @@ (<<"B", "#">> :> 0)  @@ (<<"C", "b">> :> 11)

\* variant is "low", "high" or "undefined" where the entry has none
Correct_STRING_POSITIONS ==
    [G |-> <<[semitones |-> 0, notation |-> "Low Ma1", finger |-> 0, variant |-> "undefined"],
             [semitones |-> 1, notation |-> "Low Dha1", finger |-> 1, variant |-> "low"],
             [semitones |-> 2, notation |-> "Low Dha2", finger |-> 1, variant |-> "high"],
             [semitones |-> 3, notation |-> "Low Ni2", finger |-> 2, variant |-> "low"],
             [semitones |-> 4, notation |-> "Low Ni3", finger |-> 2, variant |-> "high"],
             [semitones |-> 5, notation |-> "Low Sa", finger |-> 3, variant |-> "undefined"]>>,
     D |-> <<[semitones |-> 0, notation |-> "Sa", finger |-> 0, variant |-> "undefined"],
             [semitones |-> 1, notation |-> "Ri1", finger |-> 1, variant |-> "low"],
             [semitones |-> 2, notation |-> "Ri2", finger |-> 1, variant |-> "high"],
             [semitones |-> 3, notation |-> "Ga2", finger |-> 2, variant |-> "low"],
             [semitones |-> 4, notation |-> "Ga3", finger |-> 2, variant |-> "high"],
             [semitones |-> 5, notation |-> "Ma1", finger |-> 3, variant |-> "undefined"],
             [semitones |-> 6, notation |-> "Ma2", finger |-> 4, variant |-> "undefined"]>>,
     A |-> <<[semitones |-> 0, notation |-> "Pa", finger |-> 0, variant |-> "undefined"],
             [semitones |-> 1, notation |-> "Dha1", finger |-> 1, variant |-> "low"],
             [semitones |-> 2, notation |-> "Dha2", finger |-> 1, variant |-> "high"],
             [semitones |-> 3, notation |-> "Ni2", finger |-> 2, variant |-> "low"],
             [semitones |-> 4, notation |-> "Ni3", finger |-> 2, variant |-> "high"],
             [semitones |-> 5, notation |-> "High Sa.", finger |-> 3, variant |-> "undefined"]>>,
     E |-> <<[semitones |-> 0, notation |-> "High Ri2.", finger |-> 0, variant |-> "undefined"],
             [semitones |-> 1, notation |-> "High Ga2.", finger |-> 1, variant |-> "low"],
             [semitones |-> 2, notation |-> "High Ga3.", finger |-> 1, variant |-> "high"],
             [semitones |-> 3, notation |-> "High Ma1.", finger |-> 2, variant |-> "low"],
             [semitones |-> 4, notation |-> "High Ma2.", finger |-> 2, variant |-> "high"],
             [semitones |-> 5, notation |-> "High Pa.", finger |-> 3, variant |-> "undefined"]>>]

\* the iteration order of convertNote
Correct_strings == <<"E", "A", "D", "G">>

\* strings.indexOf
Correct_IndexOf(string) ==
    CHOOSE i \in 1..Len(Correct_strings) : Correct_strings[i] = string

Correct_Null ==
    [string |-> "null", position |-> "", fingerPosition |-> 0 - 1,
     variant |-> "undefined"]

Correct_NoteToMidi(pitch, octave) ==
    LET noteName == StripDigits(pitch)
    IN  IF noteName \notin DOMAIN Correct_NOTE_TO_MIDI
        THEN Thrown
        ELSE Returned((octave + 1) * 12 + Correct_NOTE_TO_MIDI[noteName])

\* the test under which a match replaces bestMatch
Correct_Replaces(string, match, bestMatch) ==
    \/ IsNull(bestMatch)
    \/ Correct_IndexOf(string) > Correct_IndexOf(bestMatch.string)
    \/ (string = bestMatch.string /\ match.finger < bestMatch.fingerPosition)

\* the for loop of convertNote from Correct_strings[i] on
RECURSIVE Correct_BestFrom(_, _, _)
Correct_BestFrom(i, midiNote, bestMatch) ==
    IF i > Len(Correct_strings) THEN bestMatch
    ELSE LET string == Correct_strings[i]
             semitonesFromOpen == midiNote - Correct_STRING_TUNINGS[string]
             found == SelectSeq(Correct_STRING_POSITIONS[string],
                                LAMBDA p : p.semitones = semitonesFromOpen)
         IN  IF found # <<>> /\ Correct_Replaces(string, found[1], bestMatch)
             THEN Correct_BestFrom(i + 1, midiNote,
                      [string |-> string, position |-> found[1].notation,
                       fingerPosition |-> found[1].finger,
                       variant |-> found[1].variant])
             ELSE Correct_BestFrom(i + 1, midiNote, bestMatch)

Correct_ConvertNote(westernNote) ==
    LET midiNote == Correct_NoteToMidi(westernNote.pitch, westernNote.octave)
    IN  IF midiNote.threw THEN Thrown
        ELSE Returned(Correct_BestFrom(1, midiNote.value, Correct_Null))

-----------------------------------------------------------------------------
(* MusicXMLParser.parseSimpleSequence                                        *)

UpperLetters == {"A", "B", "C", "D", "E", "F", "G"}

LowerLetters == {"a", "b", "c", "d", "e", "f", "g"}

\* text.match(/^([A-G][#b]?)(\d*)$/) with the given letter and accidental
\* classes: group 1 takes the accidental whenever one follows the letter
MatchNote(text, letters, accidentals) ==
    IF Len(text) = 0 \/ text[1] \notin letters
    THEN [matched |-> FALSE, name |-> <<>>, digits |-> <<>>]
    ELSE LET k == IF Len(text) >= 2 /\ text[2] \in accidentals THEN 2 ELSE 1
             rest == SubSeq(text, k + 1, Len(text))
         IN  [matched |-> AllDigits(rest),
              name |-> SubSeq(text, 1, k),
              digits |-> rest]

\* A token of the manual input is "<note>" or "<note>:<beats>"; the model
\* holds the note text and the parsed duration, in half beats.
RECURSIVE ParseSimpleFrom(_, _)
ParseSimpleFrom(toks, acc) ==
    IF toks = <<>> THEN acc
    ELSE LET m == MatchNote(Head(toks).text, UpperLetters, {"#", "b"})
         IN  IF m.matched /\ m.digits # <<>>
             THEN ParseSimpleFrom(Tail(toks),
                      Append(acc, [pitch |-> m.name,
                                   octave |-> ParseInt(m.digits),
                                   duration |-> Head(toks).duration]))
             ELSE ParseSimpleFrom(Tail(toks), acc)

ParseSimpleSequence(toks) == ParseSimpleFrom(toks, <<>>)

-----------------------------------------------------------------------------
(* The store, usePlayback, InputPanel and NotationPlayer                     *)

\* a timeout delay: a number of milliseconds, or Infinity
Ms(v) == [infinite |-> FALSE, ms |-> v]

InfiniteMs == [infinite |-> TRUE, ms |-> 0]

\* a delay computed from a beat of 500 ms whatever the tempo
NoteDurationMsFixedBeat(note, bpm) == Ms((note.duration * 30000) \div 120)

\* beatDuration = (60 / tempo) * 1000; noteDuration = duration * beatDuration
\* (duration in half beats); 60 / 0 is Infinity and a negative tempo gives a
\* negative product
NoteDurationMs(note, bpm) ==
    IF bpm = 0 THEN InfiniteMs
    ELSE IF bpm > 0 THEN Ms((note.duration * 30000) \div bpm)
    ELSE Ms(0 - ((note.duration * 30000) \div (0 - bpm)))

Deps == <<playbackState, currentIndex, tempo>>

\* timer holds the delays of the timeouts that are pending, in the order
\* they were armed; timeoutRef.current is the one armed last.

\* a cleanup that leaves the timeout pending
ClearTimeoutNothing(pending) == pending

\* the cleanup: clearTimeout(timeoutRef.current)
ClearTimeout(pending) ==
    IF pending = <<>> THEN <<>> ELSE SubSeq(pending, 1, Len(pending) - 1)

\* The effect of usePlayback after a handler: when one of its dependencies
\* changed, the cleanup clears the timeout it armed and the body arms a new
\* one if playback is running inside the score.  `left` is what the handler
\* left of the pending timeouts, `newScore` tells that westernNotes is a new
\* array.
EffectTimer(left, newScore, ps, ci, bpm, ns) ==
    IF ~newScore /\ <<ps, ci, bpm>> = Deps
    THEN left
    ELSE IF ps = "playing" /\ ci < Len(ns)
         THEN Append(ClearTimeout(left), NoteDurationMs(ns[ci + 1], bpm))
         ELSE ClearTimeout(left)

Snapshot ==
    [playbackState |-> playbackState, currentIndex |-> currentIndex,
     loop |-> loop]

\* an advance that tests against length instead of length - 1
NextNoteUpToLength ==
    IF currentIndex < Len(westernNotes)
    THEN [currentIndex |-> currentIndex + 1, playbackState |-> playbackState]
    ELSE IF loop
         THEN [currentIndex |-> 0, playbackState |-> playbackState]
         ELSE [currentIndex |-> currentIndex, playbackState |-> "idle"]

\* an advance without the test against the last index
NextNoteNoBoundCheck ==
    [currentIndex |-> currentIndex + 1, playbackState |-> playbackState]

\* store.nextNote: the fields it sets
NextNote ==
    IF currentIndex < Len(westernNotes) - 1
    THEN [currentIndex |-> currentIndex + 1, playbackState |-> playbackState]
    ELSE IF loop
         THEN [currentIndex |-> 0, playbackState |-> playbackState]
         ELSE [currentIndex |-> currentIndex, playbackState |-> "idle"]

\* store.previousNote
PreviousNote ==
    IF currentIndex > 0 THEN currentIndex - 1 ELSE currentIndex

\* a replay test against length instead of length - 1
TogglePlaybackOffByOne ==
    IF playbackState = "playing"
    THEN [currentIndex |-> currentIndex, playbackState |-> "paused"]
    ELSE [currentIndex |->
              IF currentIndex >= Len(westernNotes) THEN 0 ELSE currentIndex,
          playbackState |-> "playing"]

\* togglePlayback: the fields it sets
TogglePlaybackFields ==
    IF playbackState = "playing"
    THEN [currentIndex |-> currentIndex, playbackState |-> "paused"]
    ELSE [currentIndex |->
              IF currentIndex >= Len(westernNotes) - 1 THEN 0 ELSE currentIndex,
          playbackState |-> "playing"]

\* NotationPlayer animate: scrollOffset.current += (tempo / 60) * 2, x30
ScrollStep(bpm) == bpm

\* ---- bounds of the store model
MaxScoreLen == 2

MaxScrollFrames == 3

\* slider values tried (the slider runs from 40 to 200, the store starts at 120)
StoreTempos == {60, 120}

\* tokens typed into the manual input: a playable note of one beat, a note
\* above the reach of every string of half a beat, and a spelling the pattern
\* accepts and NOTE_TO_MIDI lacks
ManualTokens ==
    {[text |-> <<"C", "4">>, duration |-> 2],
     [text |-> <<"D", "4">>, duration |-> 1],
     [text |-> <<"E", "#", "4">>, duration |-> 2]}

RECURSIVE SeqsUpTo(_, _)
SeqsUpTo(S, n) ==
    IF n = 0 THEN {<<>>}
    ELSE LET shorter == SeqsUpTo(S, n - 1)
         IN  shorter \cup {Append(q, x) : q \in {r \in shorter : Len(r) = n - 1},
                                          x \in S}

ManualInputs == SeqsUpTo(ManualTokens, MaxScoreLen)

\* parseSimpleSequence and convertScore on each input tried, computed once
ManualParsed == [toks \in ManualInputs |-> ParseSimpleSequence(toks)]

ManualConverted == [toks \in ManualInputs |-> ConvertScore(ManualParsed[toks])]

StoreInit ==
    /\ westernNotes = <<>>
    /\ carnaticPositions = <<>>
    /\ playbackState = "idle"
    /\ currentIndex = 0
    /\ tempo = 120
    /\ loop = FALSE
    /\ timer = <<>>
    /\ scrollOffset = 0
    /\ op = "init"
    /\ pre = [playbackState |-> "idle", currentIndex |-> 0, loop |-> FALSE]

\* InputPanel.handleManualInput: parse, convert, setScore; a throw of
\* convertScore is caught and answered with an alert, the store untouched
HandleManualInput(toks) ==
    LET parsed == ManualParsed[toks]
        positions == ManualConverted[toks]
    IN  /\ UNCHANGED <<convVars, snVars, rateVars>>
        /\ pre' = Snapshot
        /\ IF positions.threw
           THEN /\ op' = "alert"
                /\ UNCHANGED <<westernNotes, carnaticPositions, playbackState,
                               currentIndex, timer>>
           ELSE /\ op' = "setScore"
                /\ westernNotes' = parsed
                /\ carnaticPositions' = positions.value
                /\ currentIndex' = 0
                /\ playbackState' = "idle"
                /\ timer' = EffectTimer(timer, TRUE, "idle", 0, tempo, parsed)
        /\ UNCHANGED <<tempo, loop, scrollOffset>>

\* the handlers below belong to controls that NotationPlayer and ScoreDisplay
\* render only for a non-empty score
TogglePlayback ==
    /\ UNCHANGED <<convVars, snVars, rateVars>>
    /\ Len(westernNotes) > 0
    /\ LET f == TogglePlaybackFields
       IN  /\ playbackState' = f.playbackState
           /\ currentIndex' = f.currentIndex
           /\ timer' = EffectTimer(timer, FALSE, f.playbackState, f.currentIndex,
                                   tempo, westernNotes)
    /\ op' = "togglePlayback"
    /\ pre' = Snapshot
    /\ UNCHANGED <<westernNotes, carnaticPositions, tempo, loop, scrollOffset>>

StopPlayback ==
    /\ UNCHANGED <<convVars, snVars, rateVars>>
    /\ Len(westernNotes) > 0
    /\ playbackState' = "idle"
    /\ currentIndex' = 0
    /\ timer' = EffectTimer(timer, FALSE, "idle", 0, tempo, westernNotes)
    /\ op' = "stopPlayback"
    /\ pre' = Snapshot
    /\ UNCHANGED <<westernNotes, carnaticPositions, tempo, loop, scrollOffset>>

\* a pending timeout elapses and calls nextNote
TimerFires ==
    /\ UNCHANGED <<convVars, snVars, rateVars>>
    /\ \E i \in 1..Len(timer) :
         LET f == NextNote
             left == SubSeq(timer, 1, i - 1) \o SubSeq(timer, i + 1, Len(timer))
         IN  /\ playbackState' = f.playbackState
             /\ currentIndex' = f.currentIndex
             /\ timer' = EffectTimer(left, FALSE, f.playbackState,
                                     f.currentIndex, tempo, westernNotes)
    /\ op' = "advance"
    /\ pre' = Snapshot
    /\ UNCHANGED <<westernNotes, carnaticPositions, tempo, loop, scrollOffset>>

\* the Next button, disabled at the last index
NextButton ==
    /\ UNCHANGED <<convVars, snVars, rateVars>>
    /\ Len(westernNotes) > 0
    /\ ~(currentIndex >= Len(westernNotes) - 1)
    /\ LET f == NextNote
       IN  /\ playbackState' = f.playbackState
           /\ currentIndex' = f.currentIndex
           /\ timer' = EffectTimer(timer, FALSE, f.playbackState, f.currentIndex,
                                   tempo, westernNotes)
    /\ op' = "nextButton"
    /\ pre' = Snapshot
    /\ UNCHANGED <<westernNotes, carnaticPositions, tempo, loop, scrollOffset>>

\* the Previous button, disabled at index 0
PreviousButton ==
    /\ UNCHANGED <<convVars, snVars, rateVars>>
    /\ Len(westernNotes) > 0
    /\ currentIndex # 0
    /\ currentIndex' = PreviousNote
    /\ timer' = EffectTimer(timer, FALSE, playbackState, PreviousNote, tempo,
                            westernNotes)
    /\ op' = "previousButton"
    /\ pre' = Snapshot
    /\ UNCHANGED <<westernNotes, carnaticPositions, playbackState, tempo, loop,
                   scrollOffset>>

\* ScoreDisplay: click on the note at idx
ClickNote(idx) ==
    /\ UNCHANGED <<convVars, snVars, rateVars>>
    /\ currentIndex' = idx
    /\ playbackState' = "paused"
    /\ timer' = EffectTimer(timer, FALSE, "paused", idx, tempo, westernNotes)
    /\ op' = "clickNote"
    /\ pre' = Snapshot
    /\ UNCHANGED <<westernNotes, carnaticPositions, tempo, loop, scrollOffset>>

SetTempo(bpm) ==
    /\ UNCHANGED <<convVars, snVars, rateVars>>
    /\ Len(westernNotes) > 0
    /\ tempo' = bpm
    /\ timer' = EffectTimer(timer, FALSE, playbackState, currentIndex, bpm,
                            westernNotes)
    /\ op' = "setTempo"
    /\ pre' = Snapshot
    /\ UNCHANGED <<westernNotes, carnaticPositions, playbackState, currentIndex,
                   loop, scrollOffset>>

SetLoop(b) ==
    /\ UNCHANGED <<convVars, snVars, rateVars>>
    /\ Len(westernNotes) > 0
    /\ loop' = b
    /\ op' = "setLoop"
    /\ pre' = Snapshot
    /\ UNCHANGED <<westernNotes, carnaticPositions, playbackState, currentIndex,
                   tempo, timer, scrollOffset>>

\* one animation frame of NotationPlayer; the offset is followed for at most
\* MaxScrollFrames frames at the fastest tempo tried
Animate ==
    /\ UNCHANGED <<convVars, snVars, rateVars>>
    /\ Len(westernNotes) > 0
    /\ scrollOffset' = IF playbackState = "playing"
                       THEN scrollOffset + ScrollStep(tempo)
                       ELSE scrollOffset
    /\ scrollOffset' <= MaxScrollFrames * ScrollStep(120)
    /\ op' = "animate"
    /\ pre' = Snapshot
    /\ UNCHANGED <<westernNotes, carnaticPositions, playbackState, currentIndex,
                   tempo, loop, timer>>

-----------------------------------------------------------------------------
(* ScrollingNotation                                                         *)

\* NOTES of ScrollingNotation.tsx
NOTES ==
       (<<"C">> :> 0)  @@ (<<"C", "#">> :> 1)  @@ (<<"D", "b">> :> 1)
    @@ (<<"D">> :> 2)  @@ (<<"D", "#">> :> 3)  @@ (<<"E", "b">> :> 3)
    @@ (<<"E">> :> 4)  @@ (<<"E", "#">> :> 5)  @@ (<<"F">> :> 5)
    @@ (<<"F", "#">> :> 6)  @@ (<<"G", "b">> :> 6)
    @@ (<<"G">> :> 7)  @@ (<<"G", "#">> :> 8)  @@ (<<"A", "b">> :> 8)
    @@ (<<"A">> :> 9)  @@ (<<"A", "#">> :> 10) @@ (<<"B", "b">> :> 10)
    @@ (<<"B">> :> 11) @@ (<<"B", "#">> :> 0)  @@ (<<"C", "b">> :> 11)

STRING_MIDI == [E |-> 64, A |-> 57, D |-> 50, G |-> 43]

\* Object.entries(STRING_MIDI): insertion order
StringMidiOrder == <<"E", "A", "D", "G">>

POSITIONS ==
    [G |-> <<[s |-> 0, n |-> "Low Ma1", f |-> 0],
             [s |-> 1, n |-> "Low Dha1", f |-> 1],
             [s |-> 2, n |-> "Low Dha2", f |-> 1],
             [s |-> 3, n |-> "Low Ni2", f |-> 2],
             [s |-> 4, n |-> "Low Ni3", f |-> 2],
             [s |-> 5, n |-> "Low Sa", f |-> 3]>>,
     D |-> <<[s |-> 0, n |-> "Sa", f |-> 0],
             [s |-> 1, n |-> "Ri1", f |-> 1],
             [s |-> 2, n |-> "Ri2", f |-> 1],
             [s |-> 3, n |-> "Ga2", f |-> 2],
             [s |-> 4, n |-> "Ga3", f |-> 2],
             [s |-> 5, n |-> "Ma1", f |-> 3],
             [s |-> 6, n |-> "Ma2", f |-> 4]>>,
     A |-> <<[s |-> 0, n |-> "Pa", f |-> 0],
             [s |-> 1, n |-> "Dha1", f |-> 1],
             [s |-> 2, n |-> "Dha2", f |-> 1],
             [s |-> 3, n |-> "Ni2", f |-> 2],
             [s |-> 4, n |-> "Ni3", f |-> 2],
             [s |-> 5, n |-> "High Sa.", f |-> 3]>>,
     E |-> <<[s |-> 0, n |-> "High Ri2.", f |-> 0],
             [s |-> 1, n |-> "High Ga2.", f |-> 1],
             [s |-> 2, n |-> "High Ga3.", f |-> 1],
             [s |-> 3, n |-> "High Ma1.", f |-> 2],
             [s |-> 4, n |-> "High Ma2.", f |-> 2],
             [s |-> 5, n |-> "High Pa.", f |-> 3]>>]

\* String.prototype.toUpperCase on one character
UpperChar(c) ==
    CASE c = "a" -> "A" [] c = "b" -> "B" [] c = "c" -> "C" [] c = "d" -> "D"
      [] c = "e" -> "E" [] c = "f" -> "F" [] c = "g" -> "G" [] OTHER -> c

ToUpperCase(text) == [i \in 1..Len(text) |-> UpperChar(text[i])]

\* NaN: what (octave + 1) * 12 + undefined evaluates to
NaN == [nan |-> TRUE, value |-> 0]

Num(v) == [nan |-> FALSE, value |-> v]

\* midi = (octave + 1) * 12 + NOTES[note]
SnMidi(note, octave) ==
    IF note \in DOMAIN NOTES THEN Num((octave + 1) * 12 + NOTES[note]) ELSE NaN

\* a search with the offset taken from the pitch down to the open string
FindPosBelowOpen(str, midi) ==
    IF midi.nan THEN <<>>
    ELSE SelectSeq(POSITIONS[str],
                   LAMBDA p : p.s = STRING_MIDI[str] - midi.value)

\* POSITIONS[str].find(p => p.s === offset): <<>> for undefined
FindPos(str, midi) ==
    IF midi.nan THEN <<>>
    ELSE SelectSeq(POSITIONS[str],
                   LAMBDA p : p.s = midi.value - STRING_MIDI[str])

\* the inner for loop: the first string of the order with a position, from
\* StringMidiOrder[i] on; <<>> for position === null
RECURSIVE FirstPosition(_, _)
FirstPosition(i, midi) ==
    IF i > Len(StringMidiOrder) THEN <<>>
    ELSE LET str == StringMidiOrder[i]
             found == FindPos(str, midi)
         IN  IF found # <<>>
             THEN <<[string |-> str, notation |-> found[1].n,
                     finger |-> found[1].f]>>
             ELSE FirstPosition(i + 1, midi)

\* the body of the outer for loop on one whitespace-separated part: the list
\* of entries it pushes (none or one)
ParsePart(part) ==
    LET m == MatchNote(part, UpperLetters \cup LowerLetters, {"#", "b", "B"})
    IN  IF ~m.matched THEN <<>>
        ELSE LET note == ToUpperCase(m.name)
                 octave == IF m.digits # <<>> THEN ParseInt(m.digits) ELSE 3
                 midi == SnMidi(note, octave)
                 position == FirstPosition(1, midi)
             IN  IF position = <<>> THEN <<>>
                 ELSE <<[note |-> note, octave |-> octave, midi |-> midi.value,
                         string |-> position[1].string,
                         notation |-> position[1].notation,
                         finger |-> position[1].finger]>>

\* parseNotes, and the same loop in the uploadedNotes effect
RECURSIVE ParseNotes(_)
ParseNotes(parts) ==
    IF parts = <<>> THEN <<>>
    ELSE ParsePart(Head(parts)) \o ParseNotes(Tail(parts))

\* ---- the canvas, in pixels
PxScale == 30

canvasHeight == 600

spacing == 200

activeRadius == 30

targetY == canvasHeight - 100

Abs(x) == IF x < 0 THEN 0 - x ELSE x

\* y of the note at idx, x30
NoteY(idx, sy) == targetY * PxScale - idx * spacing * PxScale + sy

\* if (y < -50 || y > h + 50) return
OffCanvas(y) == y < (0 - 50) * PxScale \/ y > (canvasHeight + 50) * PxScale

\* an activation window of one pixel around the target line
IsActiveNarrow(y) == Abs(y - targetY * PxScale) < PxScale

\* isActive = Math.abs(y - targetY) < 30
IsActive(y) == Abs(y - targetY * PxScale) < activeRadius * PxScale

\* a trigger that forgets lastPlayedIdx
ShouldPlayNoDedup(isActive, idx, last, sound, isPlaying) ==
    isActive /\ sound /\ isPlaying

\* a trigger that does not ask whether the pass is running
ShouldPlayWhilePaused(isActive, idx, last, sound, isPlaying) ==
    isActive /\ idx # last /\ sound

\* the condition of the audio trigger
ShouldPlay(isActive, idx, last, sound, isPlaying) ==
    isActive /\ idx # last /\ sound /\ isPlaying

\* notes.forEach of draw from index idx on; st carries lastPlayedIdx.current,
\* the calls made on the synth and the index given to setCurrentIdx
RECURSIVE DrawFrom(_, _, _)
DrawFrom(idx, st, sy) ==
    IF idx >= Len(notes) THEN st
    ELSE
      LET n == notes[idx + 1]
          y == NoteY(idx, sy)
          isActive == IsActive(y)
          plays == ShouldPlay(isActive, idx, st.last, soundEnabled, playing)
          st1 == IF plays
                 THEN [st EXCEPT !.last = idx,
                                 !.log = Append(@, [idx |-> idx, note |-> n.note,
                                                    octave |-> n.octave,
                                                    duration |-> 5])]
                 ELSE st
          st2 == IF isActive /\ idx # currentIdx
                 THEN [st1 EXCEPT !.cur = idx]
                 ELSE st1
      IN  IF n.string \notin {"G", "D", "A", "E"} \/ OffCanvas(y)
          THEN DrawFrom(idx + 1, st, sy)
          ELSE DrawFrom(idx + 1, st2, sy)

\* ---- bounds of the ScrollingNotation model
MaxTokens == 2

MaxPending == 1

\* notes in an uploaded text
MaxUploadLen == 1

\* pixels the scroll is followed past the last note's target line
TailPx == 40

\* slider values tried (the slider runs from 60 to 180, the state starts at 120)
SnTempos == {120, 180}

\* parts typed into the textarea: a playable note in lower case without
\* octave and a pitch below the G string
SnParts == {<<"e">>, <<"C", "2">>}

\* parts of an uploaded text, which SheetMusicUpload writes as note and octave
UploadParts == {<<"D", "3">>, <<"C", "2">>}

\* useState('D E F# G A B C# D')
DefaultInput ==
    <<<<"D">>, <<"E">>, <<"F", "#">>, <<"G">>, <<"A">>, <<"B">>, <<"C", "#">>,
      <<"D">>>>

SnInputs == SeqsUpTo(SnParts, MaxTokens)

UploadInputs == SeqsUpTo(UploadParts, MaxUploadLen)

\* parseNotes on each text tried, computed once
SnParsed ==
    [parts \in SnInputs \cup UploadInputs \cup {DefaultInput} |-> ParseNotes(parts)]

ScrollCap == ((Len(notes) - 1) * spacing + TailPx) * PxScale

SnInit ==
    /\ input = DefaultInput
    /\ notes = <<>>
    /\ playing = FALSE
    /\ snTempo = 120
    /\ currentIdx = 0
    /\ soundEnabled = TRUE
    /\ scrollY = 0
    /\ lastPlayedIdx = 0 - 1
    /\ pendingPlay = 0
    /\ audioLog = <<>>
    /\ rewoundBy = "init"

\* the tail shared by parseNotes and the uploadedNotes effect
Loaded(parts) ==
    /\ input' = parts
    /\ notes' = SnParsed[parts]
    /\ currentIdx' = 0
    /\ scrollY' = 0
    /\ lastPlayedIdx' = 0 - 1
    /\ audioLog' = <<>>
    /\ UNCHANGED <<playing, snTempo, soundEnabled, pendingPlay>>

\* the textarea is edited to parts and Load Notes is pressed
LoadNotes(parts) ==
    /\ UNCHANGED <<convVars, storeVars, rateVars>>
    /\ Loaded(parts)
    /\ rewoundBy' = "load"

\* the uploadedNotes prop changes to a non-empty text
UploadNotes(parts) ==
    /\ UNCHANGED <<convVars, storeVars, rateVars>>
    /\ parts # <<>>
    /\ Loaded(parts)
    /\ rewoundBy' = "upload"

\* the controls below are rendered only when notes.length > 0
\* Play/Pause onClick up to its await (Pause has none)
PlayPress ==
    /\ UNCHANGED <<convVars, storeVars, rateVars>>
    /\ Len(notes) > 0
    /\ IF playing
       THEN /\ playing' = FALSE
            /\ UNCHANGED pendingPlay
       ELSE /\ pendingPlay < MaxPending
            /\ pendingPlay' = pendingPlay + 1
            /\ UNCHANGED playing
    /\ UNCHANGED <<input, notes, snTempo, currentIdx, soundEnabled, scrollY,
                   lastPlayedIdx, audioLog, rewoundBy>>

\* synth.resume() settles and the handler goes on to setPlaying(!playing) with
\* the playing it was created with, false
ResumeDone ==
    /\ UNCHANGED <<convVars, storeVars, rateVars>>
    /\ pendingPlay > 0
    /\ pendingPlay' = pendingPlay - 1
    /\ playing' = TRUE
    /\ UNCHANGED rewoundBy
    /\ UNCHANGED <<input, notes, snTempo, currentIdx, soundEnabled, scrollY,
                   lastPlayedIdx, audioLog>>

\* Reset onClick
ResetFields ==
    /\ Len(notes) > 0
    /\ playing' = FALSE
    /\ scrollY' = 0
    /\ currentIdx' = 0
    /\ lastPlayedIdx' = 0 - 1
    /\ audioLog' = <<>>
    /\ rewoundBy' = "reset"
    /\ UNCHANGED <<input, notes, snTempo, soundEnabled, pendingPlay>>

Reset ==
    /\ UNCHANGED <<convVars, storeVars, rateVars>>
    /\ ResetFields

SetSnTempo(bpm) ==
    /\ UNCHANGED <<convVars, storeVars, rateVars>>
    /\ Len(notes) > 0
    /\ snTempo' = bpm
    /\ UNCHANGED rewoundBy
    /\ UNCHANGED <<input, notes, playing, currentIdx, soundEnabled, scrollY,
                   lastPlayedIdx, pendingPlay, audioLog>>

ToggleSound ==
    /\ UNCHANGED <<convVars, storeVars, rateVars>>
    /\ Len(notes) > 0
    /\ soundEnabled' = ~soundEnabled
    /\ UNCHANGED rewoundBy
    /\ UNCHANGED <<input, notes, playing, snTempo, currentIdx, scrollY,
                   lastPlayedIdx, pendingPlay, audioLog>>

\* one call of draw (an animation frame, or the call made when the effect is
\* set up again); the scroll is followed up to ScrollCap
Draw ==
    /\ Len(notes) > 0
    /\ LET sy == IF playing THEN scrollY + snTempo ELSE scrollY
           st == DrawFrom(0, [last |-> lastPlayedIdx, log |-> audioLog,
                              cur |-> currentIdx], sy)
       IN  /\ sy <= ScrollCap
           /\ scrollY' = sy
           /\ lastPlayedIdx' = st.last
           /\ audioLog' = st.log
           /\ currentIdx' = st.cur
    /\ UNCHANGED rewoundBy
    /\ UNCHANGED <<input, notes, playing, snTempo, soundEnabled, pendingPlay>>

Tick ==
    /\ UNCHANGED <<convVars, storeVars, rateVars>>
    /\ Draw

-----------------------------------------------------------------------------
(* CarnaticConverter applied to inputs                                       *)

MaxMidi == 127

MaxConvLen == 2

ConvPitches == {<<"C">>, <<"F", "#">>, <<"E", "#">>}

ConvNotes == [pitch : ConvPitches, octave : {2, 3, 4}, duration : {2}]

ConvInit ==
    /\ convCall = "none"
    /\ convArg = <<>>
    /\ convResult = Returned(<<>>)

CallFindBestPosition(midiNote) ==
    /\ UNCHANGED <<storeVars, snVars, rateVars>>
    /\ convCall' = "findBestPosition"
    /\ convArg' = <<midiNote>>
    /\ convResult' = Returned(<<FindBestPosition(midiNote)>>)

CallConvertScore(ns) ==
    /\ UNCHANGED <<storeVars, snVars, rateVars>>
    /\ convCall' = "convertScore"
    /\ convArg' = ns
    /\ convResult' = ConvertScore(ns)

\* octaves tried run from -1 to MaxOctave
MaxOctave == 4

ConvOctaves == (0 - 1)..MaxOctave

\* every spelling of the two tables, and a name neither has
ConvNames == DOMAIN Correct_NOTE_TO_MIDI \cup {<<"H">>}

CallNoteToMidi(pitch, octave) ==
    /\ UNCHANGED <<storeVars, snVars, rateVars>>
    /\ convCall' = "noteToMidi"
    /\ convArg' = <<pitch, octave>>
    /\ convResult' = NoteToMidi(pitch, octave)

CallCorrectNoteToMidi(pitch, octave) ==
    /\ UNCHANGED <<storeVars, snVars, rateVars>>
    /\ convCall' = "correct.noteToMidi"
    /\ convArg' = <<pitch, octave>>
    /\ convResult' = Correct_NoteToMidi(pitch, octave)

CallConvertNote(westernNote) ==
    /\ UNCHANGED <<storeVars, snVars, rateVars>>
    /\ convCall' = "convertNote"
    /\ convArg' = <<westernNote>>
    /\ convResult' = ConvertNote(westernNote)

CallCorrectConvertNote(westernNote) ==
    /\ UNCHANGED <<storeVars, snVars, rateVars>>
    /\ convCall' = "correct.convertNote"
    /\ convArg' = <<westernNote>>
    /\ convResult' = Correct_ConvertNote(westernNote)

-----------------------------------------------------------------------------
(* Specifications                                                            *)

-----------------------------------------------------------------------------
(* NotationPlayer: where animate puts the notes                              *)

\* style={{ height: '600px' }} of the canvas
NpHeight == 600

pixelsPerBeat == 150

\* targetY = height - 80
NpTargetY == NpHeight - 80

STRING_ORDER == <<"G", "D", "A", "E">>

\* the y a note is given (x30), or that the callback returned before it
NpAt(v) == [placed |-> TRUE, y |-> v]

NpNone == [placed |-> FALSE, y |-> 0]

\* carnaticPositions.forEach((position, index) => ...) from index on
\* (durations in half beats)
RECURSIVE NpPlaceFrom(_, _, _)
NpPlaceFrom(index, accumulatedTime, ys) ==
    IF index >= Len(carnaticPositions) THEN ys
    ELSE LET position == carnaticPositions[index + 1]
         IN  IF IsNull(position)
             THEN NpPlaceFrom(index + 1, accumulatedTime, Append(ys, NpNone))
             ELSE IF \A k \in 1..Len(STRING_ORDER) :
                         STRING_ORDER[k] # position.string
             THEN NpPlaceFrom(index + 1, accumulatedTime, Append(ys, NpNone))
             ELSE LET noteTime == accumulatedTime
                      y == NpTargetY * PxScale
                             - (noteTime * pixelsPerBeat * PxScale) \div 2
                             + scrollOffset
                  IN  NpPlaceFrom(index + 1,
                                  accumulatedTime
                                      + westernNotes[index + 1].duration,
                                  Append(ys, NpAt(y)))

\* the positions the frame just drawn gave the notes
NpPlaced == NpPlaceFrom(0, 0, <<>>)

\* no run has been ended yet: tempo 0 stands for none
RateInit ==
    /\ sinceStart = 0
    /\ earlierRun = [snTempo |-> 0, sinceStart |-> 0, scrollY |-> 0]

-----------------------------------------------------------------------------
(* SimpleNoteFinder                                                          *)

\* NOTES of SimpleNoteFinder.tsx, which has no B# and no Cb
Finder_NOTES ==
       (<<"C">> :> 0)  @@ (<<"C", "#">> :> 1)  @@ (<<"D", "b">> :> 1)
    @@ (<<"D">> :> 2)  @@ (<<"D", "#">> :> 3)  @@ (<<"E", "b">> :> 3)
    @@ (<<"E">> :> 4)  @@ (<<"E", "#">> :> 5)  @@ (<<"F">> :> 5)
    @@ (<<"F", "#">> :> 6)  @@ (<<"G", "b">> :> 6)
    @@ (<<"G">> :> 7)  @@ (<<"G", "#">> :> 8)  @@ (<<"A", "b">> :> 8)
    @@ (<<"A">> :> 9)  @@ (<<"A", "#">> :> 10) @@ (<<"B", "b">> :> 10)
    @@ (<<"B">> :> 11)

\* POSITIONS and STRING_MIDI of SimpleNoteFinder.tsx have the entries of
\* those of ScrollingNotation.tsx, in the same order
Finder_POSITIONS == POSITIONS

Finder_STRING_MIDI == STRING_MIDI

Finder_StringOrder == <<"E", "A", "D", "G">>

\* String.prototype.trim, for texts padded with blanks
RECURSIVE Trim(_)
Trim(text) ==
    IF text = <<>> THEN <<>>
    ELSE IF Head(text) = " " THEN Trim(Tail(text))
    ELSE IF text[Len(text)] = " " THEN Trim(SubSeq(text, 1, Len(text) - 1))
    ELSE text

\* the inner for loop of find for one octave, from Finder_StringOrder[i] on
RECURSIVE FindOnStrings(_, _, _, _)
FindOnStrings(i, midi, oct, found) ==
    IF i > Len(Finder_StringOrder) THEN found
    ELSE LET str == Finder_StringOrder[i]
             offset == midi - Finder_STRING_MIDI[str]
             pos == SelectSeq(Finder_POSITIONS[str], LAMBDA p : p.s = offset)
         IN  FindOnStrings(i + 1, midi, oct,
                           IF pos # <<>>
                           THEN Append(found,
                                       [string |-> str, notation |-> pos[1].n,
                                        finger |-> pos[1].f, octave |-> oct])
                           ELSE found)

\* for (let oct = 2; oct <= 6; oct++)
RECURSIVE FindFromOctave(_, _, _)
FindFromOctave(oct, note, found) ==
    IF oct > 6 THEN found
    ELSE FindFromOctave(oct + 1, note,
                        FindOnStrings(1, (oct + 1) * 12 + Finder_NOTES[note],
                                      oct, found))

\* NOTES[note] is truthy: the key exists and its value is not 0
FinderKnows(note) == note \in DOMAIN Finder_NOTES /\ Finder_NOTES[note] # 0

\* find: the list given to setResult
Find(search) ==
    LET note == ToUpperCase(Trim(search))
    IN  IF ~FinderKnows(note) THEN <<>>
        ELSE FindFromOctave(2, note, <<>>)

\* texts typed into the Quick Finder: every key of NOTES, a key in lower
\* case, a padded key and a text that is no note
FinderInputs ==
    DOMAIN Finder_NOTES \cup {<<"d">>, <<" ", "G", " ">>, <<"H">>}

\* Find pressed with the text search in the box
CallFind(search) ==
    /\ UNCHANGED <<storeVars, snVars, rateVars>>
    /\ convCall' = "find"
    /\ convArg' = <<search>>
    /\ convResult' = Returned(Find(search))

DigitChars == <<"0", "1", "2", "3", "4", "5", "6", "7", "8", "9">>

\* one note typed into the textarea of ScrollingNotation with its octave:
\* every spelling of NOTES in every octave up to MaxOctave
TypedParts ==
    {name \o <<DigitChars[octave + 1]>> :
         name \in DOMAIN NOTES, octave \in 0..MaxOctave}

\* parseNotes of ScrollingNotation on a text of one part
CallParseNotes(part) ==
    /\ UNCHANGED <<storeVars, snVars, rateVars>>
    /\ convCall' = "parseNotes"
    /\ convArg' = <<part>>
    /\ convResult' = Returned(ParseNotes(<<part>>))

Init == ConvInit /\ StoreInit /\ SnInit /\ RateInit

\* ScrollingNotation under every interleaving of its handlers
Next ==
    \/ \E parts \in SnInputs : LoadNotes(parts)
    \/ \E parts \in UploadInputs : UploadNotes(parts)
    \/ PlayPress
    \/ ResumeDone
    \/ Reset
    \/ \E bpm \in SnTempos : SetSnTempo(bpm)
    \/ ToggleSound
    \/ Tick

Spec == Init /\ [][Next]_vars

\* ScrollingNotation, one play-through at a time: nothing pauses it, changes
\* the tempo under way or switches the sound off
StartPress == ~playing /\ PlayPress

TempoBeforeStart(bpm) == ~playing /\ scrollY = 0 /\ SetSnTempo(bpm)

NextPlayThrough ==
    \/ \E parts \in SnInputs \cup {DefaultInput} : LoadNotes(parts)
    \/ StartPress
    \/ ResumeDone
    \/ Reset
    \/ \E bpm \in SnTempos : TempoBeforeStart(bpm)
    \/ Tick

SpecPlayThrough == Init /\ [][NextPlayThrough]_vars

\* The play-through followed without end.  Past the last note's window the
\* scroll only grows and no note can become active again before a load or a
\* reset, so the model keeps scrollY there as a position inside the tail
\* (WindowEnd..ScrollCap) that wraps around.
WindowEnd == ((Len(notes) - 1) * spacing + activeRadius) * PxScale

TickBeyond ==
    /\ UNCHANGED <<convVars, storeVars, rateVars>>
    /\ Len(notes) > 0
    /\ playing
    /\ scrollY + snTempo > ScrollCap
    /\ scrollY' = WindowEnd
                    + ((scrollY + snTempo - WindowEnd) % (ScrollCap - WindowEnd))
    /\ UNCHANGED <<input, notes, playing, snTempo, currentIdx, soundEnabled,
                   lastPlayedIdx, pendingPlay, audioLog, rewoundBy>>

LoadBeforeStart(parts) == ~playing /\ pendingPlay = 0 /\ LoadNotes(parts)

NextRunOut ==
    \/ \E parts \in SnInputs : LoadBeforeStart(parts)
    \/ StartPress
    \/ ResumeDone
    \/ Reset
    \/ \E bpm \in SnTempos : TempoBeforeStart(bpm)
    \/ Tick
    \/ TickBeyond

\* requestAnimationFrame(draw) at the end of every draw keeps the frames
\* coming, and the promise of synth.resume() settles
SpecRunOut ==
    /\ Init
    /\ [][NextRunOut]_vars
    /\ WF_vars(Tick)
    /\ WF_vars(TickBeyond)
    /\ WF_vars(ResumeDone)

\* ScrollingNotation where, once Reset has been pressed, Play/Pause is not
\* pressed again before the next load: what happens after a Reset is then
\* the work of presses made before it.
PlayPressBeforeReset == rewoundBy # "reset" /\ PlayPress

NextResetRace ==
    \/ \E parts \in SnInputs : LoadNotes(parts)
    \/ PlayPressBeforeReset
    \/ ResumeDone
    \/ Reset
    \/ \E bpm \in SnTempos : SetSnTempo(bpm)
    \/ Tick

SpecResetRace == Init /\ [][NextResetRace]_vars

\* Play-throughs of ScrollingNotation against the wall clock.
\* requestAnimationFrame calls draw once per display refresh, so the time
\* between two calls is the display's to choose: 1/120 s or 1/60 s here.
FrameIntervals == {1, 2}

\* the longest run followed, in 1/120 s
MaxRunTime == 4

\* the frame that comes dt after the one before it
Frame(dt) ==
    /\ UNCHANGED <<convVars, storeVars>>
    /\ Draw
    /\ sinceStart + dt <= MaxRunTime
    /\ sinceStart' = IF playing THEN sinceStart + dt ELSE sinceStart
    /\ UNCHANGED earlierRun

\* Reset, the run it ends being kept for comparison
ResetAfterRun ==
    /\ UNCHANGED <<convVars, storeVars>>
    /\ ResetFields
    /\ earlierRun' = [snTempo |-> snTempo, sinceStart |-> sinceStart,
                      scrollY |-> scrollY]
    /\ sinceStart' = 0

NextFrameRate ==
    \/ \E parts \in SnInputs : LoadBeforeStart(parts)
    \/ StartPress
    \/ ResumeDone
    \/ ResetAfterRun
    \/ \E bpm \in SnTempos : TempoBeforeStart(bpm)
    \/ \E dt \in FrameIntervals : Frame(dt)

SpecFrameRate == Init /\ [][NextFrameRate]_vars

\* the store with usePlayback, InputPanel, NotationPlayer and ScoreDisplay
NextStore ==
    \/ \E toks \in ManualInputs : HandleManualInput(toks)
    \/ TogglePlayback
    \/ StopPlayback
    \/ TimerFires
    \/ NextButton
    \/ PreviousButton
    \/ \E idx \in 0..(Len(westernNotes) - 1) : ClickNote(idx)
    \/ \E bpm \in StoreTempos : SetTempo(bpm)
    \/ \E b \in BOOLEAN : SetLoop(b)
    \/ Animate

SpecStore == Init /\ [][NextStore]_vars

\* reset of the store, which no component calls
StoreReset ==
    /\ UNCHANGED <<convVars, snVars, rateVars>>
    /\ westernNotes' = <<>>
    /\ carnaticPositions' = <<>>
    /\ playbackState' = "idle"
    /\ currentIndex' = 0
    /\ timer' = EffectTimer(timer, TRUE, "idle", 0, tempo, <<>>)
    /\ op' = "reset"
    /\ pre' = Snapshot
    /\ UNCHANGED <<tempo, loop, scrollOffset>>

\* the components of the store, and a caller of reset beside them
NextStoreApi ==
    \/ NextStore
    \/ StoreReset

SpecStoreApi == Init /\ [][NextStoreApi]_vars

\* tempos handed to setTempo by a caller other than the sliders
ClockTempos == {0 - 60, 0, 60}

\* the store and usePlayback alone, setTempo taking any number
NextClock ==
    \/ \E toks \in ManualInputs : HandleManualInput(toks)
    \/ TogglePlayback
    \/ StopPlayback
    \/ TimerFires
    \/ \E bpm \in ClockTempos : SetTempo(bpm)

SpecClock == Init /\ [][NextClock]_vars

\* either player in use: page.tsx mounts ScrollingNotation, and the
\* store-driven NotationPlayer is never mounted beside it, so one of the two
\* stays as constructed
NextPlayers ==
    \/ op = "init" /\ Next
    \/ rewoundBy = "init" /\ NextStore

SpecPlayers == Init /\ [][NextPlayers]_vars

\* the converter's static methods applied to bounded inputs
NextConv ==
    \/ \E m \in 0..MaxMidi : CallFindBestPosition(m)
    \/ \E ns \in SeqsUpTo(ConvNotes, MaxConvLen) : CallConvertScore(ns)
    \/ \E pitch \in ConvNames, octave \in ConvOctaves :
           \/ CallNoteToMidi(pitch, octave)
           \/ CallCorrectNoteToMidi(pitch, octave)
           \/ CallConvertNote([pitch |-> pitch, octave |-> octave,
                               duration |-> 2])
           \/ CallCorrectConvertNote([pitch |-> pitch, octave |-> octave,
                                      duration |-> 2])
    \/ \E part \in TypedParts : CallParseNotes(part)
    \/ \E search \in FinderInputs : CallFind(search)

SpecConv == Init /\ [][NextConv]_vars

-----------------------------------------------------------------------------
(* What the claims are stated with                                           *)

\* the strings in the order G, D, A, E, with their candidates for a pitch
PreferenceOrder == <<"G", "D", "A", "E">>

Candidates(pitch) ==
    {i \in 1..4 :
        /\ 0 <= pitch - STRING_TUNINGS[PreferenceOrder[i]]
        /\ pitch - STRING_TUNINGS[PreferenceOrder[i]]
               < Len(STRING_POSITIONS[PreferenceOrder[i]])}

FirstCandidate(pitch) ==
    CHOOSE i \in Candidates(pitch) : \A j \in Candidates(pitch) : i <= j

\* the position the first candidate string gives, null when there is none
ExpectedPosition(pitch) ==
    IF Candidates(pitch) = {} THEN NullPosition
    ELSE LET str == PreferenceOrder[FirstCandidate(pitch)]
         IN  [string |-> str,
              position |-> STRING_POSITIONS[str][pitch - STRING_TUNINGS[str] + 1],
              fingerPosition |-> pitch - STRING_TUNINGS[str]]

KnownName(note) == note.pitch \in DOMAIN NOTE_TO_MIDI

AbsolutePitch(note) == (note.octave + 1) * 12 + NOTE_TO_MIDI[note.pitch]

\* how often the synth was asked to play the note at idx
TimesPlayed(idx) ==
    Cardinality({k \in 1..Len(audioLog) : audioLog[k].idx = idx})

\* the scroll has brought the note at idx into its activation window, or past
WindowReached(idx) ==
    scrollY > 0 /\ scrollY > (idx * spacing - activeRadius) * PxScale

\* the parts of a text that the pattern of parseNotes accepts
WellFormedParts(parts) ==
    SelectSeq(parts, LAMBDA part :
        MatchNote(part, UpperLetters \cup LowerLetters, {"#", "b", "B"}).matched)

\* the pitch class a spelling denotes: the letter's semitone above C, one up
\* for a sharp, one down for a flat, modulo the octave
LetterClass ==
    ("C" :> 0) @@ ("D" :> 2) @@ ("E" :> 4) @@ ("F" :> 5) @@ ("G" :> 7)
    @@ ("A" :> 9) @@ ("B" :> 11)

PitchClassOf(name) ==
    (LetterClass[name[1]]
        + (IF Len(name) = 1 THEN 0 ELSE IF name[2] = "#" THEN 1 ELSE 0 - 1)) % 12

\* the absolute pitch a note denotes
SoundingPitch(note) == (note.octave + 1) * 12 + PitchClassOf(note.pitch)

\* position p is the open string str with the given label
OpenOn(p, str, label) ==
    /\ p.string = str
    /\ p.fingerPosition = 0
    /\ p.position = label

\* the table the named noteToMidi reads
TableOf(call) ==
    IF call = "noteToMidi" THEN NOTE_TO_MIDI ELSE Correct_NOTE_TO_MIDI

LastIndex == Len(westernNotes) - 1

-----------------------------------------------------------------------------
(* Claims                                                                    *)

\* C1: in one uninterrupted play-through from the reset state, with sound on
\* and a fixed tempo of the slider range, playWesternNote has been called
\* exactly once for every note whose activation window the scroll has reached
\* and never for a note still ahead; at the end, once for every index.
C1_OncePerNote ==
    \A idx \in 0..(Len(notes) - 1) :
        TimesPlayed(idx) = IF WindowReached(idx) THEN 1 ELSE 0

C1_Witness ==
    /\ Len(notes) >= 2
    /\ WindowReached(Len(notes) - 1)
    /\ scrollY > ((Len(notes) - 1) * spacing + activeRadius) * PxScale
    /\ Len(audioLog) = Len(notes)
    /\ snTempo = 180

\* C2: between two loads/resets, under every interleaving of ticks,
\* pause/resume presses, tempo changes and sound toggles, the indices handed
\* to the synth are strictly increasing (so none is played twice), and
\* lastPlayedIdx is the last index played, -1 when none was.
C2_AtMostOnceIncreasing ==
    /\ \A k \in 1..(Len(audioLog) - 1) : audioLog[k].idx < audioLog[k + 1].idx
    /\ lastPlayedIdx = IF audioLog = <<>> THEN 0 - 1
                       ELSE audioLog[Len(audioLog)].idx

C2_Witness ==
    /\ Len(audioLog) = 1
    /\ audioLog[1].idx = 1
    /\ ~playing
    /\ soundEnabled
    /\ snTempo = 180
    /\ scrollY > (spacing + activeRadius) * PxScale

\* C3: findBestPosition returns null exactly when no string has
\* 0 <= pitch - open < table length, and otherwise the first such string in
\* the order G, D, A, E with fingerPosition = pitch - open and the label at
\* that index of the string's table.
C3_FirstCandidateWins ==
    convCall = "findBestPosition" =>
        /\ ~convResult.threw
        /\ convResult.value[1] = ExpectedPosition(convArg[1])
        /\ IsNull(convResult.value[1]) <=> Candidates(convArg[1]) = {}

C3_Witness ==
    /\ convCall = "findBestPosition"
    /\ Cardinality(Candidates(convArg[1])) >= 3
    /\ convResult.value[1].string = "D"
    /\ convResult.value[1].fingerPosition = 0

\* C4: convertScore returns a list as long as its argument whose i-th entry
\* is the resolution of the i-th note, null for an unplayable note, at the
\* note's own index.
C4_ConvertScoreAligned ==
    convCall = "convertScore" =>
        /\ ~convResult.threw
        /\ Len(convResult.value) = Len(convArg)
        /\ \A i \in 1..Len(convArg) :
               convResult.value[i] = ExpectedPosition(AbsolutePitch(convArg[i]))

\* what convertScore does keep: on notes whose names NOTE_TO_MIDI knows it
\* returns one entry per note, index-aligned, null where no string reaches
ConvertScoreAlignedOnKnownNames ==
    (convCall = "convertScore" /\ \A i \in 1..Len(convArg) : KnownName(convArg[i]))
        => /\ ~convResult.threw
           /\ Len(convResult.value) = Len(convArg)
           /\ \A i \in 1..Len(convArg) :
                  convResult.value[i] = ExpectedPosition(AbsolutePitch(convArg[i]))

\* C5: a note with a pitch name NOTE_TO_MIDI lacks never makes the conversion
\* of the whole score fail: handleManualInput never ends in the alert that
\* answers a throw of convertScore, the score is loaded.
C5_ScoreStillLoaded == op # "alert"

\* C6: after a load, the note list has one entry per part of the text that
\* the pattern accepts, in order, the i-th entry being the i-th such part.
C6_LoadKeepsEveryNote ==
    rewoundBy \in {"load", "upload"} =>
        /\ Len(notes) = Len(WellFormedParts(input))
        /\ \A i \in 1..Len(notes) :
               notes[i].note = ToUpperCase(
                   MatchNote(WellFormedParts(input)[i],
                             UpperLetters \cup LowerLetters,
                             {"#", "b", "B"}).name)

\* C7: Stop pressed while playing leaves playbackState idle, currentIndex 0
\* and NotationPlayer's scrollOffset 0.
C7_StopResetsAll ==
    (op = "stopPlayback" /\ pre.playbackState = "playing") =>
        /\ playbackState = "idle"
        /\ currentIndex = 0
        /\ scrollOffset = 0

\* C8: when the advance timer elapses while playing, nextNote moves to the
\* next index inside the score, and at the last index wraps to 0 when loop is
\* on and sets playbackState to idle otherwise, so that an advance from
\* another index never ends playback.
C8_Advance ==
    (op = "advance" /\ pre.playbackState = "playing") =>
        IF pre.currentIndex < LastIndex
        THEN currentIndex = pre.currentIndex + 1 /\ playbackState = "playing"
        ELSE IF pre.loop
             THEN currentIndex = 0 /\ playbackState = "playing"
             ELSE currentIndex = pre.currentIndex /\ playbackState = "idle"

C8_Witness ==
    /\ op = "advance"
    /\ pre.playbackState = "playing"
    /\ Len(westernNotes) >= 2
    /\ pre.currentIndex = LastIndex
    /\ pre.loop
    /\ currentIndex = 0
    /\ playbackState = "playing"

\* C9: with loop on and the cursor at the last index, the advance puts the
\* cursor at 0 and the scroll position back at the start.
C9_LoopResetsScroll ==
    (op = "advance" /\ pre.loop /\ pre.currentIndex = LastIndex) =>
        /\ currentIndex = 0
        /\ scrollOffset = 0

\* C10: togglePlayback in idle or paused sets playbackState to playing, with
\* currentIndex 0 if it was at or past the last note and unchanged otherwise.
C10_ToggleStarts ==
    (op = "togglePlayback" /\ pre.playbackState \in {"idle", "paused"}) =>
        /\ playbackState = "playing"
        /\ currentIndex = IF pre.currentIndex >= LastIndex THEN 0
                          ELSE pre.currentIndex

C10_Witness ==
    /\ op = "togglePlayback"
    /\ pre.playbackState = "paused"
    /\ Len(westernNotes) >= 2
    /\ pre.currentIndex = LastIndex
    /\ currentIndex = 0
    /\ playbackState = "playing"

\* C11: pausing keeps the cursor and the scroll offset, and a frame drawn
\* while not playing leaves scroll offset, cursor and lastPlayedIdx as they
\* are and calls nothing on the synth, in ScrollingNotation and in the
\* store-driven player alike.
C11_PauseFreezes ==
    [][/\ (playing /\ PlayPress) =>
              UNCHANGED <<currentIdx, scrollY, lastPlayedIdx, audioLog>>
       /\ (~playing /\ Tick) =>
              UNCHANGED <<currentIdx, scrollY, lastPlayedIdx, audioLog>>
       /\ (playbackState = "playing" /\ TogglePlayback) =>
              UNCHANGED <<currentIndex, scrollOffset>>
       /\ (playbackState # "playing" /\ Animate) =>
              UNCHANGED <<currentIndex, scrollOffset>>]_vars

\* paused in the middle of a pass, the second note played and still inside
\* its window, frames going on
C11_Witness ==
    /\ ~playing
    /\ pendingPlay = 0
    /\ lastPlayedIdx = 1
    /\ currentIdx = 1
    /\ IsActive(NoteY(1, scrollY))
    /\ scrollY > spacing * PxScale

\* C12: at most one advance timeout is pending, none is pending while the
\* state is idle or paused (every transition away from playing cancels it),
\* and no advance ever runs from idle or paused.
C12_NoStaleTimer ==
    /\ Len(timer) <= 1
    /\ playbackState # "playing" => timer = <<>>
    /\ op = "advance" => pre.playbackState = "playing"

\* Stop pressed while the timeout of the second note was pending
C12_Witness ==
    /\ op = "stopPlayback"
    /\ pre.playbackState = "playing"
    /\ pre.currentIndex = 1
    /\ playbackState = "idle"
    /\ timer = <<>>

\* C13: a load (Load Notes, or a new uploadedNotes), from whatever state,
\* leaves current index 0, scroll offset 0, lastPlayedIdx -1 and playback not
\* running.
C13_LoadStopsPlayback ==
    [][((\E parts \in SnInputs : LoadNotes(parts))
            \/ (\E parts \in UploadInputs : UploadNotes(parts)))
          => /\ currentIdx' = 0
             /\ scrollY' = 0
             /\ lastPlayedIdx' = 0 - 1
             /\ ~playing']_vars

\* C14: once the last note has scrolled past its activation window while
\* playing, playback eventually leaves the playing state (and with it the
\* scroll stops growing).
C14_PlaybackEnds ==
    (Len(notes) > 0 /\ playing /\ scrollY > WindowEnd) ~> ~playing

\* C15: for every name of its table and every octave, noteToMidi (either
\* variant) returns (octave + 1) * 12 + the pitch class of the name, so that
\* two spellings of one pitch class with the same octave number give the same
\* absolute pitch.
C15_NoteToMidiByPitchClass ==
    (/\ convCall \in {"noteToMidi", "correct.noteToMidi"}
     /\ convArg[1] \in DOMAIN TableOf(convCall))
        => /\ ~convResult.threw
           /\ convResult.value = (convArg[2] + 1) * 12 + PitchClassOf(convArg[1])

\* Db4 gives 61, the pitch of C#4
C15_Witness ==
    /\ convCall = "noteToMidi"
    /\ convArg = <<<<"D", "b">>, 4>>
    /\ convResult = Returned(61)
    /\ NoteToMidi(<<"C", "#">>, 4) = Returned(61)

\* C16: resolving the pitch of a string's open tuning gives that string,
\* finger 0 and the first label of the string's table, in findBestPosition
\* and convertNote of lib/carnatic-converter and in convertNote of
\* lib/carnatic-converter-correct.
C16_OpenStringRoundTrip ==
    \A str \in {"G", "D", "A", "E"} :
        /\ (convCall = "findBestPosition" /\ convArg[1] = STRING_TUNINGS[str])
               => OpenOn(convResult.value[1], str, STRING_POSITIONS[str][1])
        /\ (/\ convCall = "convertNote"
            /\ convArg[1].pitch \in DOMAIN NOTE_TO_MIDI
            /\ SoundingPitch(convArg[1]) = STRING_TUNINGS[str])
               => /\ ~convResult.threw
                  /\ OpenOn(convResult.value, str, STRING_POSITIONS[str][1])
        /\ (/\ convCall = "correct.convertNote"
            /\ convArg[1].pitch \in DOMAIN Correct_NOTE_TO_MIDI
            /\ SoundingPitch(convArg[1]) = Correct_STRING_TUNINGS[str])
               => /\ ~convResult.threw
                  /\ OpenOn(convResult.value, str,
                            Correct_STRING_POSITIONS[str][1].notation)

\* G3, the open G string of lib/carnatic-converter, which the D string
\* reaches too
C16_Witness ==
    /\ convCall = "convertNote"
    /\ convArg[1].pitch = <<"G">>
    /\ convArg[1].octave = 3
    /\ convResult = Returned([string |-> "G", position |-> "SA",
                              fingerPosition |-> 0])

\* the tuning table the named convertNote reads
TuningsOf(call) ==
    IF call = "correct.convertNote" THEN Correct_STRING_TUNINGS
    ELSE STRING_TUNINGS

\* C17: convertNote of D4 (pitch D, octave 4) returns the string whose open
\* tuning equals the absolute pitch of D4, with finger 0, under the tuning
\* table of lib/carnatic-converter-correct and under that of
\* lib/carnatic-converter.
C17_D4OnOpenString ==
    (/\ convCall \in {"convertNote", "correct.convertNote"}
     /\ convArg[1].pitch = <<"D">>
     /\ convArg[1].octave = 4)
        => /\ ~convResult.threw
           /\ \E str \in DOMAIN TuningsOf(convCall) :
                  /\ TuningsOf(convCall)[str] = SoundingPitch(convArg[1])
                  /\ convResult.value.string = str
                  /\ convResult.value.fingerPosition = 0

\* C18: the advance timer usePlayback holds for the current note has the delay
\* note.duration * 60000 / tempo milliseconds, durations counted in beats
\* (twice the model's half-beats): 500 ms for a note of one beat at 120 BPM
\* and 1000 ms at 60 BPM.
C18_TimerDelay ==
    \A i \in 1..Len(timer) :
        /\ currentIndex < Len(westernNotes)
        /\ LET note == westernNotes[currentIndex + 1]
           IN  /\ ~timer[i].infinite
               /\ 2 * timer[i].ms * tempo = note.duration * 60000
               /\ (note.duration = 2 /\ tempo = 120) => timer[i].ms = 500
               /\ (note.duration = 2 /\ tempo = 60) => timer[i].ms = 1000

\* a note of one beat played at 60 BPM after the tempo was changed
C18_Witness ==
    /\ op = "setTempo"
    /\ playbackState = "playing"
    /\ tempo = 60
    /\ westernNotes[currentIndex + 1].duration = 2
    /\ timer = <<Ms(1000)>>

\* C19: while the tempo is zero or negative, no advance timer with an
\* infinite or a negative delay is pending and no step takes playback into
\* the playing state.
C19_NonPositiveTempoRejected ==
    [][tempo' <= 0 =>
          /\ \A i \in 1..Len(timer') :
                 ~timer'[i].infinite /\ timer'[i].ms >= 0
          /\ playbackState # "playing" => playbackState' # "playing"]_vars

\* C20: at one tempo, two play-throughs of ScrollingNotation that have been
\* playing for the same time have the same scroll offset, however many
\* frames each was drawn in.
C20_ScrollByElapsedTime ==
    (earlierRun.snTempo = snTempo /\ earlierRun.sinceStart = sinceStart)
        => earlierRun.scrollY = scrollY

\* the durations of the notes before index i (from 0), in half beats
RECURSIVE HalfBeatsBefore(_)
HalfBeatsBefore(i) ==
    IF i = 0 THEN 0
    ELSE HalfBeatsBefore(i - 1) + westernNotes[i].duration

\* C21: in the frame NotationPlayer's animate draws, the note at index i is
\* put at targetY - cumulativeBeatOffset(i) * pixelsPerBeat + scrollOffset,
\* the offset being the sum of the durations of all notes before i, those
\* without a position included.
C21_NoteYByCumulativeBeats ==
    op = "animate" =>
        \A i \in 0..(Len(carnaticPositions) - 1) :
            NpPlaced[i + 1].placed =>
                2 * (NpTargetY * PxScale + scrollOffset - NpPlaced[i + 1].y)
                    = HalfBeatsBefore(i) * pixelsPerBeat * PxScale

\* C22: every call draw makes on the synth carries the pitch and octave of
\* the note that became active and a duration of beats * 60 / tempo seconds
\* for the tempo in force, a note of ScrollingNotation being one beat (the
\* log keeps durations in tenths of a second).
C22_AudioDurationFollowsTempo ==
    [][Len(audioLog') > Len(audioLog) =>
          LET played == audioLog'[Len(audioLog')]
          IN  /\ played.note = notes[played.idx + 1].note
              /\ played.octave = notes[played.idx + 1].octave
              /\ played.duration * snTempo = 1 * 60 * 10]_vars

C24_SettingsDuringPlayback ==
    [][/\ (playbackState = "playing" /\ \E bpm \in StoreTempos : SetTempo(bpm))
              => /\ UNCHANGED <<playbackState, currentIndex>>
                 /\ Len(timer') = 1
                 /\ ~timer'[1].infinite
                 /\ 2 * timer'[1].ms * tempo'
                        = westernNotes[currentIndex + 1].duration * 60000
       /\ (playbackState = "playing" /\ \E b \in BOOLEAN : SetLoop(b))
              => /\ UNCHANGED <<playbackState, currentIndex>>
                 /\ Len(timer') = 1
       /\ (TimerFires /\ currentIndex = Len(westernNotes) - 1)
              => IF loop
                 THEN currentIndex' = 0 /\ playbackState' = "playing"
                 ELSE playbackState' = "idle"]_vars

\* C25: whenever the store is playing a non-empty score, an advance timer is
\* pending, after the wrap of a one-note score from index 0 to index 0 too.
C25_TimerPendingWhilePlaying ==
    (playbackState = "playing" /\ Len(westernNotes) > 0) => timer # <<>>

\* C26: after Reset, and with no Play press after it, playing stays false,
\* also when a Play press made before the Reset was still awaiting
\* synth.resume().
C26_ResetHoldsUntilPlay ==
    rewoundBy = "reset" => ~playing

\* C27: with a score loaded, currentIndex stays within 0..length - 1 after
\* every sequence of setScore, togglePlayback, stopPlayback, timer-driven
\* nextNote, the Next and Previous buttons and clicks on notes.
C27_IndexWithinScore ==
    Len(westernNotes) > 0 =>
        /\ 0 <= currentIndex
        /\ currentIndex <= Len(westernNotes) - 1

\* the advance at the last note of a looping two-note score
C27_Witness ==
    /\ op = "advance"
    /\ Len(westernNotes) = 2
    /\ pre = [playbackState |-> "playing", currentIndex |-> 1, loop |-> TRUE]
    /\ currentIndex = 0

\* the spelling and the octave digit of a typed part
NameOf(part) == SubSeq(part, 1, Len(part) - 1)

OctaveOf(part) == DigitValue(part[Len(part)])

\* string, label and finger of the entries parseNotes made
PlacesOf(entries) ==
    [i \in 1..Len(entries) |->
        [string |-> entries[i].string, notation |-> entries[i].notation,
         finger |-> entries[i].finger]]

\* C28: parseNotes of ScrollingNotation gives two spellings of one pitch
\* class at one octave the same string, label and finger, and loads both or
\* neither (Eb3 as D#3).
C28_SpellingDoesNotMatter ==
    convCall = "parseNotes" =>
        \A other \in TypedParts :
            (/\ OctaveOf(other) = OctaveOf(convArg[1])
             /\ PitchClassOf(NameOf(other)) = PitchClassOf(NameOf(convArg[1])))
                => PlacesOf(ParseNotes(<<other>>)) = PlacesOf(convResult.value)

\* the (octave, string) pairs at which a string's table has the pitch of
\* the name
FinderPairs(name) ==
    {<<oct, str>> \in (2..6) \X {"E", "A", "D", "G"} :
        \E k \in 1..Len(Finder_POSITIONS[str]) :
            Finder_POSITIONS[str][k].s
                = (oct + 1) * 12 + Finder_NOTES[name] - Finder_STRING_MIDI[str]}

\* C29: for every key of NOTES typed as it is written there, find returns
\* one entry for each (octave, string) pair with octave in 2..6 whose string
\* has the pitch in its table, and no other entry; C, of pitch class 0,
\* included.
C29_FindReturnsEveryPosition ==
    (convCall = "find" /\ convArg[1] \in DOMAIN Finder_NOTES) =>
        /\ {<<convResult.value[i].octave, convResult.value[i].string>> :
               i \in 1..Len(convResult.value)} = FinderPairs(convArg[1])
        /\ Len(convResult.value) = Cardinality(FinderPairs(convArg[1]))

\* the strings whose table of ScrollingNotation has the pitch m
SnCandidates(m) ==
    {str \in {"E", "A", "D", "G"} :
        \E k \in 1..Len(POSITIONS[str]) :
            POSITIONS[str][k].s = m - STRING_MIDI[str]}

\* position p of convertNote and the entries parseNotes made say the same:
\* no position and no entry, or one entry with p's string, label and finger
SamePlace(p, entries) ==
    IF IsNull(p) THEN entries = <<>>
    ELSE /\ Len(entries) = 1
         /\ entries[1].string = p.string
         /\ entries[1].notation = p.position
         /\ entries[1].finger = p.fingerPosition

\* C30: under the tunings E 64, A 57, D 50, G 43 every pitch is in the table
\* of at most one string, and at every pitch the loop of parseNotes, which
\* stops at the first string that has it, and convertNote of
\* lib/carnatic-converter-correct, which keeps the last, give the same
\* string, label and finger, or both give none.
C30_FirstAndLastMatchAgree ==
    /\ (convCall = "correct.convertNote" /\ ~convResult.threw)
           => LET m == SoundingPitch(convArg[1])
                  first == FirstPosition(1, Num(m))
              IN  /\ Cardinality(SnCandidates(m)) <= 1
                  /\ SamePlace(convResult.value, first)
    /\ (convCall = "parseNotes"
            /\ ToUpperCase(NameOf(convArg[1])) \in DOMAIN NOTES)
           => LET m == (OctaveOf(convArg[1]) + 1) * 12
                           + NOTES[ToUpperCase(NameOf(convArg[1]))]
              IN  /\ Cardinality(SnCandidates(m)) <= 1
                  /\ SamePlace(Correct_BestFrom(1, m, Correct_Null),
                               convResult.value)

\* D#3, which both put on the D string as Ri1 with finger 1
C30_Witness ==
    /\ convCall = "parseNotes"
    /\ convArg = <<<<"D", "#", "3">>>>
    /\ PlacesOf(convResult.value)
           = <<[string |-> "D", notation |-> "Ri1", finger |-> 1]>>
    /\ Correct_ConvertNote([pitch |-> <<"D", "#">>, octave |-> 3,
                            duration |-> 2]).value.position = "Ri1"

====
